---- MODULE Spec2Model ----
(***************************************************************************)
(* Model of the vcpu core: CompositeMemory (src/src/memory/composite.rs)   *)
(* and Processor (src/src/processor.rs).                                   *)
(*                                                                         *)
(* u32 values are modelled with a scaled width of U32Bits bits so that     *)
(* checked_add / wrapping_add / plain `+` overflow is reachable.           *)
(***************************************************************************)
EXTENDS Integers, Naturals, Sequences, FiniteSets, TLC

\* ------------------------------------------------------------------ bounds
\* width of the modelled u32 (the program's is 32)
U32Bits == 4
\* mount addresses are drawn from 0..AddrSpan and the top of the u32 range
AddrSpan == 2
\* fragment lengths are drawn from 0..MaxFragLen
MaxFragLen == 2

U32Mod == 2 ^ U32Bits
U32Max == U32Mod - 1

\* Option::None of a u32 / usize
NoneVal == -1

\* u32::checked_add
checked_add(a, b) == IF a + b > U32Max THEN NoneVal ELSE a + b

\* u32::wrapping_add
wrapping_add(a, b) == (a + b) % U32Mod

\* ------------------------------------------------------------------ inputs
\* the keys of the calls; the lookups are also run with a third key
Keys == {"f0", "f1"}
LookupKeys == Keys \cup {"f2"}
\* with three keys the mounts are drawn from two neighbouring addresses
LookupAddrs == {0, 1}
MountAddrs == (0 .. AddrSpan) \cup {U32Max - 1}
FragLens == 0 .. MaxFragLen
AccessLens == 0 .. MaxFragLen

\* a Box<dyn Storage>: an object with a fixed length() and an id that tells the
\* caller's objects apart
NoFrag == [id |-> "none", len |-> 0]

VARIABLES
  memory,      \* the CompositeMemory: [fragments, registry]
  panicked,    \* a call has panicked; the object is used no further
  last,        \* the last call: its name, arguments and return value
  processor,   \* the Processor: [registers, program_counter, state]
  storage,     \* the storage handed to tick
  run,         \* the call of Processor::run in progress, or the last one
  io           \* the IOMemory: [memory]

vars == <<memory, panicked, last, processor, storage, run, io>>
procVars == <<processor, storage, run>>

EmptyMap == [k \in {} |-> 0]

\* Vec::insert(index, e), index 0-based
InsertAt(s, index, e) == SubSeq(s, 1, index) \o <<e>> \o SubSeq(s, index + 1, Len(s))

\* Vec::remove(index), index 0-based, index < len
RemoveAt(s, index) == SubSeq(s, 1, index) \o SubSeq(s, index + 2, Len(s))

\* HashMap::insert
MapInsert(m, k, v) == [x \in DOMAIN m \cup {k} |-> IF x = k THEN v ELSE m[x]]

\* HashMap::remove (the map that is left)
MapRemove(m, k) == [x \in DOMAIN m \ {k} |-> m[x]]

\* ------------------------------------------------------- CompositeMemory
\* CompositeMemory::new
new == [fragments |-> <<>>, registry |-> EmptyMap]

\* mutant: the lower neighbour's upper bound is not compared
RECURSIVE find_mount_index_no_lower(_, _, _, _)
find_mount_index_no_lower(self, i, address, upper_bound) ==
  IF i > Len(self.fragments) THEN Len(self.fragments)
  ELSE LET frag_addr == self.fragments[i].addr
       IN IF frag_addr >= address
          THEN (IF upper_bound > frag_addr THEN NoneVal ELSE i - 1)
          ELSE find_mount_index_no_lower(self, i + 1, address, upper_bound)

\* mutant: the upper bound is not compared with the base of the next fragment
RECURSIVE find_mount_index_no_upper(_, _, _, _)
find_mount_index_no_upper(self, i, address, upper_bound) ==
  IF i > Len(self.fragments) THEN Len(self.fragments)
  ELSE LET frag_addr == self.fragments[i].addr
           frag_upper == frag_addr + self.fragments[i].frag.len
       IN IF frag_addr >= address THEN i - 1
          ELSE IF frag_upper > address THEN NoneVal
          ELSE find_mount_index_no_upper(self, i + 1, address, upper_bound)

\* mutant: a range that ends at the base of the next fragment is refused
RECURSIVE find_mount_index_touch_refused(_, _, _, _)
find_mount_index_touch_refused(self, i, address, upper_bound) ==
  IF i > Len(self.fragments) THEN Len(self.fragments)
  ELSE LET frag_addr == self.fragments[i].addr
           frag_upper == frag_addr + self.fragments[i].frag.len
       IN IF frag_addr >= address
          THEN (IF upper_bound >= frag_addr THEN NoneVal ELSE i - 1)
          ELSE IF frag_upper > address THEN NoneVal
          ELSE find_mount_index_touch_refused(self, i + 1, address, upper_bound)

\* the loop of find_mount_index from 1-based position i on;
\* returns the 0-based index, or NoneVal for Err(FragmentIntersection)
RECURSIVE find_mount_index_from(_, _, _, _)
find_mount_index_from(self, i, address, upper_bound) ==
  IF i > Len(self.fragments) THEN Len(self.fragments)
  ELSE LET frag_addr == self.fragments[i].addr
           frag_upper == frag_addr + self.fragments[i].frag.len
       IN IF frag_addr >= address
          THEN (IF upper_bound > frag_addr THEN NoneVal ELSE i - 1)
          ELSE IF frag_upper > address THEN NoneVal
          ELSE find_mount_index_from(self, i + 1, address, upper_bound)

find_mount_index(self, address, upper_bound) ==
  find_mount_index_from(self, 1, address, upper_bound)

\* mutant: the key is looked up only after the upper bound was computed
mount_key_check_last(self, address, key, fragment) ==
  LET upper_bound == checked_add(address, fragment.len)
  IN IF upper_bound = NoneVal THEN [self |-> self, result |-> "Panic"]
     ELSE IF key \in DOMAIN self.registry
     THEN [self |-> self, result |-> "KeyAlreadyExists"]
     ELSE LET index == find_mount_index(self, address, upper_bound)
          IN IF index = NoneVal
             THEN [self |-> self, result |-> "FragmentIntersection"]
             ELSE [self |-> [fragments |-> InsertAt(self.fragments, index,
                                             [addr |-> address, frag |-> fragment]),
                             registry |-> MapInsert(self.registry, key, index)],
                   result |-> "Ok"]

\* mutant: the upper bound wraps instead of being checked
mount_wrapping(self, address, key, fragment) ==
  IF key \in DOMAIN self.registry
  THEN [self |-> self, result |-> "KeyAlreadyExists"]
  ELSE LET upper_bound == wrapping_add(address, fragment.len)
           index == find_mount_index(self, address, upper_bound)
       IN IF index = NoneVal
          THEN [self |-> self, result |-> "FragmentIntersection"]
          ELSE [self |-> [fragments |-> InsertAt(self.fragments, index,
                                          [addr |-> address, frag |-> fragment]),
                          registry |-> MapInsert(self.registry, key, index)],
                result |-> "Ok"]

\* mutant: the fragment is pushed at the end of the list
mount_push(self, address, key, fragment) ==
  IF key \in DOMAIN self.registry
  THEN [self |-> self, result |-> "KeyAlreadyExists"]
  ELSE LET upper_bound == checked_add(address, fragment.len)
       IN IF upper_bound = NoneVal THEN [self |-> self, result |-> "Panic"]
          ELSE LET index == find_mount_index(self, address, upper_bound)
               IN IF index = NoneVal
                  THEN [self |-> self, result |-> "FragmentIntersection"]
                  ELSE [self |-> [fragments |-> Append(self.fragments,
                                                  [addr |-> address, frag |-> fragment]),
                                  registry |-> MapInsert(self.registry, key,
                                                         Len(self.fragments))],
                        result |-> "Ok"]

\* CompositeMemory::mount; result "Panic" is the expect() on checked_add
mount(self, address, key, fragment) ==
  IF key \in DOMAIN self.registry
  THEN [self |-> self, result |-> "KeyAlreadyExists"]
  ELSE LET upper_bound == checked_add(address, fragment.len)
       IN IF upper_bound = NoneVal THEN [self |-> self, result |-> "Panic"]
          ELSE LET index == find_mount_index(self, address, upper_bound)
               IN IF index = NoneVal
                  THEN [self |-> self, result |-> "FragmentIntersection"]
                  ELSE [self |-> [fragments |-> InsertAt(self.fragments, index,
                                                  [addr |-> address, frag |-> fragment]),
                                  registry |-> MapInsert(self.registry, key, index)],
                        result |-> "Ok"]

\* mutant: the key is looked up with get, not taken out with remove
unmount_keeps_key(self, key) ==
  IF key \notin DOMAIN self.registry
  THEN [self |-> self, kind |-> "None", frag |-> NoFrag]
  ELSE LET i == self.registry[key]
       IN IF i >= Len(self.fragments)
          THEN [self |-> self, kind |-> "Panic", frag |-> NoFrag]
          ELSE [self |-> [fragments |-> RemoveAt(self.fragments, i),
                          registry |-> self.registry],
                kind |-> "Some", frag |-> self.fragments[i + 1].frag]

\* CompositeMemory::unmount; kind "Panic" is Vec::remove out of bounds,
\* which happens after the key has left the registry
unmount(self, key) ==
  IF key \notin DOMAIN self.registry
  THEN [self |-> self, kind |-> "None", frag |-> NoFrag]
  ELSE LET i == self.registry[key]
           registry == MapRemove(self.registry, key)
       IN IF i >= Len(self.fragments)
          THEN [self |-> [fragments |-> self.fragments, registry |-> registry],
                kind |-> "Panic", frag |-> NoFrag]
          ELSE [self |-> [fragments |-> RemoveAt(self.fragments, i),
                          registry |-> registry],
                kind |-> "Some", frag |-> self.fragments[i + 1].frag]

\* slice::binary_search_by_key over the fragment bases, as the standard library
\* builds that return the last match do (Rust up to 1.51 and from 1.82):
\* [found, index], index 0-based
binary_search_last(self, address) ==
  LET below == {i \in 1 .. Len(self.fragments) : self.fragments[i].addr <= address}
      base == IF below = {} THEN 0 ELSE CHOOSE i \in below : \A j \in below : j <= i
  IN IF base > 0 /\ self.fragments[base].addr = address
     THEN [found |-> TRUE, index |-> base - 1]
     ELSE [found |-> FALSE, index |-> base]

\* slice::binary_search_by_key as the builds that return at the first probe that
\* compares equal do (Rust 1.52 to 1.81); left, right are 0-based
RECURSIVE binary_search_probe(_, _, _, _)
binary_search_probe(self, address, left, right) ==
  IF left >= right THEN [found |-> FALSE, index |-> left]
  ELSE LET mid == left + ((right - left) \div 2)
           key == self.fragments[mid + 1].addr
       IN IF key < address THEN binary_search_probe(self, address, mid + 1, right)
          ELSE IF key > address THEN binary_search_probe(self, address, left, mid)
          ELSE [found |-> TRUE, index |-> mid]

\* the results binary_search_by_key can give: with several equal bases the match
\* returned is unspecified and differs between standard library versions
binary_search_by_key(self, address) ==
  {binary_search_last(self, address),
   binary_search_probe(self, address, 0, Len(self.fragments))}

\* CompositeMemory::get_index: the set of indices it can return (NoneVal for None)
get_index(self, address) ==
  {IF r.found THEN r.index ELSE (IF r.index > 0 THEN r.index - 1 ELSE NoneVal)
     : r \in binary_search_by_key(self, address)}

\* mutant: the address is not translated to the fragment's local offset
get_fragment_no_offset(self, address) ==
  {IF index = NoneVal \/ index >= Len(self.fragments)
     THEN [index |-> NoneVal, local |-> 0]
     ELSE [index |-> index, local |-> 0]
     : index \in get_index(self, address)}

\* CompositeMemory::get_fragment / get_fragment_mut: [index, local], index NoneVal
\* for None
get_fragment(self, address) ==
  {IF index = NoneVal \/ index >= Len(self.fragments)
     THEN [index |-> NoneVal, local |-> 0]
     ELSE [index |-> index, local |-> address - self.fragments[index + 1].addr]
     : index \in get_index(self, address)}

\* Storage::check_range of a fragment: [address, address + length) lies within it
frag_check_range(fragment, address, len) == address + len <= fragment.len

\* Storage::borrow_slice / borrow_slice_mut of a fragment
frag_borrow_slice(fragment, address, len) ==
  IF frag_check_range(fragment, address, len) THEN "Ok" ELSE "Err"

\* <CompositeMemory as Storage>::length
length(self) ==
  IF Len(self.fragments) > 0
  THEN self.fragments[Len(self.fragments)].addr
         + self.fragments[Len(self.fragments)].frag.len
  ELSE 0

\* <CompositeMemory as Storage>::check_range: the results it can give, each with
\* the fragment resolved
check_range(self, address, len) ==
  {[got |-> g,
    ret |-> IF g.index = NoneVal THEN "false"
            ELSE IF frag_check_range(self.fragments[g.index + 1].frag, g.local, len)
                 THEN "true" ELSE "false"]
     : g \in get_fragment(self, address)}

\* <CompositeMemory as Storage>::borrow_slice and borrow_slice_mut
borrow_slice(self, address, len) ==
  {[got |-> g,
    ret |-> IF g.index = NoneVal THEN "Err"
            ELSE frag_borrow_slice(self.fragments[g.index + 1].frag, g.local, len)]
     : g \in get_fragment(self, address)}

\* ------------------------------------------------------------- Processor
\* constants::WORD_BYTES
WORD_BYTES == 4

\* number of registers modelled (constants::REGISTER_COUNT in the program)
RegCount == 2

ExitCodes == {"Halted", "Unknown", "Terminated", "DivisionByZero", "BadMemoryAccess",
              "BadAlignment", "BadJump", "InvalidOpcode", "BadProgramCounter"}

\* Option::None of the processor state
NoState == "None"

RegIds == 0 .. (RegCount - 1)
RegVals == {0, 1}
StorageVals == {<<0>>, <<1>>}

\* OpCode::HALT and OpCode::ADD as the low byte of an instruction word; the other
\* values of that byte stand for the rest of the instruction set
HALT == 2
ADD == 3

\* the instruction streams handed to tick: lengths around zero, one and two words
\* and the end of the u32 range, up to one past it, filled with one byte value (a
\* word of the open part of the instruction set, or HALT words)
InstrFills == {0, HALT}
InstrLens ==
  {0, 1, WORD_BYTES, WORD_BYTES + 1, 2 * WORD_BYTES,
   U32Mod - 3, U32Mod - 1, U32Mod, U32Mod + 1}
InstrStreams == {[i \in 1 .. n |-> b] : n \in InstrLens, b \in InstrFills}

\* Endian::read_u32 (little-endian) of a 4-byte slice
read_u32(bytes) == bytes[1] + 256 * bytes[2] + 65536 * bytes[3] + 16777216 * bytes[4]

\* the jump targets the logic unit hands back in the model
JumpTargets == {0, 1, WORD_BYTES, 2 * WORD_BYTES, U32Mod - WORD_BYTES, U32Max}

\* TickResult
TickResults ==
  {[kind |-> "Next", target |-> 0, code |-> NoState]}
  \cup {[kind |-> "Jump", target |-> t, code |-> NoState] : t \in JumpTargets}
  \cup {[kind |-> "Stop", target |-> 0, code |-> c]
          : c \in {"Halted", "DivisionByZero", "BadMemoryAccess", "InvalidOpcode"}}

\* instr_i / instr_alu: the instruction word of an opcode and three operand fields,
\* one byte each
instr_i(opcode, rd, rs1, imm) == opcode + 256 * rd + 65536 * rs1 + 16777216 * imm
instr_alu(opcode, rd, rs1, rs2) == opcode + 256 * rd + 65536 * rs1 + 16777216 * rs2

\* the fields of an instruction word
opcode_of(instruction) == instruction % 256
rd_of(instruction) == (instruction \div 256) % 256
rs1_of(instruction) == (instruction \div 65536) % 256
rs2_of(instruction) == instruction \div 16777216

\* program_from_words: the bytes of the words, little-endian
program_from_words(vec) ==
  [i \in 1 .. (Len(vec) * WORD_BYTES) |->
     (vec[((i - 1) \div WORD_BYTES) + 1] \div (256 ^ ((i - 1) % WORD_BYTES))) % 256]

\* what executing an instruction word other than HALT and ADD can do. An
\* instruction writes at most one register and at most one storage cell and yields
\* one TickResult; which one depends on the decoding of the word, which is left
\* open here.
logic_any(registers, store) ==
  {[result |-> res, registers |-> regs, storage |-> st]
     : res \in TickResults,
       regs \in {registers} \cup {[registers EXCEPT ![r] = v] : r \in RegIds, v \in RegVals},
       st \in StorageVals}

\* mutant: ADD stops the processor when the sum leaves the u32 range
logic_tick_add_traps(registers, store, instruction, pc) ==
  IF /\ opcode_of(instruction) = ADD
     /\ {rd_of(instruction), rs1_of(instruction), rs2_of(instruction)} \subseteq RegIds
  THEN LET sum == checked_add(registers[rs1_of(instruction)],
                              registers[rs2_of(instruction)])
       IN IF sum = NoneVal
          THEN {[result |-> [kind |-> "Stop", target |-> 0, code |-> "Unknown"],
                 registers |-> registers, storage |-> store]}
          ELSE {[result |-> [kind |-> "Next", target |-> 0, code |-> NoState],
                 registers |-> [registers EXCEPT ![rd_of(instruction)] = sum],
                 storage |-> store]}
  ELSE logic_any(registers, store)

\* logic::tick: HALT yields Stop(Halted) and touches nothing; ADD puts the wrapping
\* sum of the two source registers into the destination register and yields Next.
\* The registers modelled are general-purpose ones (the hard-wired zero register is
\* not among them).
logic_tick(registers, store, instruction, pc) ==
  IF opcode_of(instruction) = HALT
  THEN {[result |-> [kind |-> "Stop", target |-> 0, code |-> "Halted"],
         registers |-> registers, storage |-> store]}
  ELSE IF /\ opcode_of(instruction) = ADD
          /\ {rd_of(instruction), rs1_of(instruction), rs2_of(instruction)}
               \subseteq RegIds
  THEN {[result |-> [kind |-> "Next", target |-> 0, code |-> NoState],
         registers |-> [registers EXCEPT ![rd_of(instruction)] =
                          wrapping_add(registers[rs1_of(instruction)],
                                       registers[rs2_of(instruction)])],
         storage |-> store]}
  ELSE logic_any(registers, store)

\* Processor::default
default ==
  [registers |-> [r \in RegIds |-> 0], program_counter |-> 0, state |-> NoState]

\* the outcome of get_new_state when logic::tick has run and handed back lt
ticked(self, lt) ==
  [registers |-> lt.registers, program_counter |-> self.program_counter,
   storage |-> lt.storage, state |-> NoState, fetched |-> TRUE, panic |-> FALSE,
   kind |-> lt.result.kind, target |-> lt.result.target]

\* mutant: the bounds of a jump target are compared before its alignment
apply_tick_result_bounds_first(self, instr_len, lt) ==
  LET base == ticked(self, lt)
  IN CASE lt.result.kind = "Next" ->
            LET new_pc == wrapping_add(self.program_counter, WORD_BYTES)
            IN [base EXCEPT !.program_counter = IF new_pc < instr_len THEN new_pc ELSE 0]
       [] lt.result.kind = "Jump" ->
            IF lt.result.target >= instr_len
            THEN [base EXCEPT !.state = "BadJump"]
            ELSE IF lt.result.target % WORD_BYTES # 0
            THEN [base EXCEPT !.state = "BadAlignment"]
            ELSE [base EXCEPT !.program_counter = lt.result.target]
       [] OTHER -> [base EXCEPT !.state = lt.result.code]

\* mutant: a jump target equal to the stream length is taken
apply_tick_result_past_end(self, instr_len, lt) ==
  LET base == ticked(self, lt)
  IN CASE lt.result.kind = "Next" ->
            LET new_pc == wrapping_add(self.program_counter, WORD_BYTES)
            IN [base EXCEPT !.program_counter = IF new_pc < instr_len THEN new_pc ELSE 0]
       [] lt.result.kind = "Jump" ->
            IF lt.result.target % WORD_BYTES # 0
            THEN [base EXCEPT !.state = "BadAlignment"]
            ELSE IF lt.result.target > instr_len
            THEN [base EXCEPT !.state = "BadJump"]
            ELSE [base EXCEPT !.program_counter = lt.result.target]
       [] OTHER -> [base EXCEPT !.state = lt.result.code]

\* mutant: the program counter goes back to 0 only beyond the stream length
apply_tick_result_next_le(self, instr_len, lt) ==
  LET base == ticked(self, lt)
  IN CASE lt.result.kind = "Next" ->
            LET new_pc == wrapping_add(self.program_counter, WORD_BYTES)
            IN [base EXCEPT !.program_counter = IF new_pc <= instr_len THEN new_pc ELSE 0]
       [] lt.result.kind = "Jump" ->
            IF lt.result.target % WORD_BYTES # 0
            THEN [base EXCEPT !.state = "BadAlignment"]
            ELSE IF lt.result.target >= instr_len
            THEN [base EXCEPT !.state = "BadJump"]
            ELSE [base EXCEPT !.program_counter = lt.result.target]
       [] OTHER -> [base EXCEPT !.state = lt.result.code]

\* mutant: the alignment of a jump target is not looked at
apply_tick_result_no_align(self, instr_len, lt) ==
  LET base == ticked(self, lt)
  IN CASE lt.result.kind = "Next" ->
            LET new_pc == wrapping_add(self.program_counter, WORD_BYTES)
            IN [base EXCEPT !.program_counter = IF new_pc < instr_len THEN new_pc ELSE 0]
       [] lt.result.kind = "Jump" ->
            IF lt.result.target >= instr_len
            THEN [base EXCEPT !.state = "BadJump"]
            ELSE [base EXCEPT !.program_counter = lt.result.target]
       [] OTHER -> [base EXCEPT !.state = lt.result.code]

\* the match on tick_result in get_new_state
apply_tick_result(self, instr_len, lt) ==
  LET base == ticked(self, lt)
  IN CASE lt.result.kind = "Next" ->
            LET new_pc == wrapping_add(self.program_counter, WORD_BYTES)
            IN [base EXCEPT !.program_counter = IF new_pc < instr_len THEN new_pc ELSE 0]
       [] lt.result.kind = "Jump" ->
            IF lt.result.target % WORD_BYTES # 0
            THEN [base EXCEPT !.state = "BadAlignment"]
            ELSE IF lt.result.target >= instr_len
            THEN [base EXCEPT !.state = "BadJump"]
            ELSE [base EXCEPT !.program_counter = lt.result.target]
       [] OTHER -> [base EXCEPT !.state = lt.result.code]

\* the else branch of get_new_state: the slice of the instruction word (indexed in
\* usize; out of range panics), the logic unit, then the match on its result
fetch_execute(self, instructions, store, instr_len) ==
  LET pc == self.program_counter
  IN IF pc + WORD_BYTES > Len(instructions)
     THEN {[registers |-> self.registers, program_counter |-> pc, storage |-> store,
            state |-> NoState, fetched |-> FALSE, panic |-> TRUE,
            kind |-> "none", target |-> 0]}
     ELSE {apply_tick_result(self, instr_len, lt)
             : lt \in logic_tick(self.registers, store,
                                 read_u32(SubSeq(instructions, pc + 1, pc + WORD_BYTES)),
                                 pc)}

\* Processor::get_new_state: the outcomes it can have. `program_counter +
\* WORD_BYTES` is a plain u32 add: on overflow a build with overflow checks panics
\* and a build without them goes on with the wrapped sum.
get_new_state(self, instructions, store) ==
  LET instr_len == Len(instructions) % U32Mod
      sum == self.program_counter + WORD_BYTES
      bad_pc == [registers |-> self.registers, program_counter |-> self.program_counter,
                 storage |-> store, state |-> "BadProgramCounter", fetched |-> FALSE,
                 panic |-> FALSE, kind |-> "none", target |-> 0]
      checked == IF sum % U32Mod > instr_len THEN {bad_pc}
                 ELSE fetch_execute(self, instructions, store, instr_len)
  IN IF sum > U32Max
     THEN {[bad_pc EXCEPT !.state = NoState, !.panic = TRUE]} \cup checked
     ELSE checked

\* mutant: a stopped processor is ticked like a running one
tick_always(self, instructions, store) ==
  {[self |-> [registers |-> r.registers, program_counter |-> r.program_counter,
              state |-> IF r.panic THEN self.state ELSE r.state],
    storage |-> r.storage, ret |-> IF r.panic THEN "Panic" ELSE r.state,
    fetched |-> r.fetched, panic |-> r.panic, kind |-> r.kind, target |-> r.target]
     : r \in get_new_state(self, instructions, store)}

\* Processor::tick: the outcomes it can have (ret "Panic": the call panicked)
tick(self, instructions, store) ==
  IF self.state # NoState
  THEN {[self |-> self, storage |-> store, ret |-> self.state, fetched |-> FALSE,
         panic |-> FALSE, kind |-> "none", target |-> 0]}
  ELSE {[self |-> [registers |-> r.registers, program_counter |-> r.program_counter,
                   state |-> IF r.panic THEN self.state ELSE r.state],
         storage |-> r.storage, ret |-> IF r.panic THEN "Panic" ELSE r.state,
         fetched |-> r.fetched, panic |-> r.panic, kind |-> r.kind,
         target |-> r.target]
          : r \in get_new_state(self, instructions, store)}

\* mutant: the loop of run goes on when the tick reports Halted
run_iteration_skips_halted(self, instructions, store) ==
  {[tick |-> t, returned |-> (t.ret # NoState /\ t.ret # "Halted" /\ ~t.panic)]
     : t \in tick(self, instructions, store)}

\* one iteration of the loop of Processor::run: a tick, and the return from run
\* when the tick hands back an exit code
run_iteration(self, instructions, store) ==
  {[tick |-> t, returned |-> (t.ret # NoState /\ ~t.panic)]
     : t \in tick(self, instructions, store)}

\* no call of run so far
NoRun ==
  [active |-> FALSE, program |-> <<>>, ticks |-> 0, ret |-> NoState, fresh |-> FALSE]

\* ---------------------------------------------------------------- IOMemory
\* length of the buffer of the IOMemory
IOSize == 4

\* the addresses, sizes and values of the writes
IOAddrs == (0 .. (IOSize + 1)) \cup {U32Max}
IOWriteSizes == {1, 2, WORD_BYTES}
IOValues == {0, 258}

\* IOMemory::new(size, handler)
io_new(size) == [memory |-> [i \in 1 .. size |-> 0]]

\* the low-order size bytes of a value (values stay below 2^31 here)
truncated(value, size) == IF size >= WORD_BYTES THEN value ELSE value % (256 ^ size)

\* <Vec<u8> as Storage>::read: the little-endian value of size bytes at address
vec_read(bytes, address, size) ==
  LET b(i) == IF i <= size THEN bytes[address + i] * (256 ^ (i - 1)) ELSE 0
  IN b(1) + b(2) + b(3) + b(4)

\* <Vec<u8> as StorageMut>::write: the low-order size bytes of value, little-endian,
\* at address; out of range fails and writes nothing
vec_write(bytes, address, size, value) ==
  IF address + size <= Len(bytes)
  THEN [ret |-> "Ok",
        memory |-> [i \in 1 .. Len(bytes) |->
                      IF address < i /\ i <= address + size
                      THEN (value \div (256 ^ (i - address - 1))) % 256
                      ELSE bytes[i]]]
  ELSE [ret |-> "Err", memory |-> bytes]

\* a call of the handler: which method, the buffer it is shown, address and size
HandlerCall(method, bytes, address, size) ==
  [method |-> method, memory |-> bytes, address |-> address, size |-> size]

\* mutant: the range is validated before the handler is asked
io_write_range_first(self, address, size, value, permit) ==
  LET w == vec_write(self.memory, address, size, value)
      asked == <<HandlerCall("can_write", self.memory, address, size)>>
  IN IF w.ret = "Err" THEN [self |-> self, ret |-> "Err", calls |-> <<>>]
     ELSE IF permit
     THEN [self |-> [memory |-> w.memory], ret |-> "Ok",
           calls |-> Append(asked, HandlerCall("on_write", w.memory, address, size))]
     ELSE [self |-> self, ret |-> "Ok", calls |-> asked]

\* mutant: on_write is invoked before the buffer is written
io_write_notifies_first(self, address, size, value, permit) ==
  LET w == vec_write(self.memory, address, size, value)
      asked == <<HandlerCall("can_write", self.memory, address, size)>>
  IN IF permit
     THEN (IF w.ret = "Err"
           THEN [self |-> self, ret |-> "Err",
                 calls |-> Append(asked,
                                  HandlerCall("on_write", self.memory, address, size))]
           ELSE [self |-> [memory |-> w.memory], ret |-> "Ok",
                 calls |-> Append(asked,
                                  HandlerCall("on_write", self.memory, address, size))])
     ELSE [self |-> self, ret |-> "Ok", calls |-> asked]

\* mutant: the error of the buffer's write is dropped instead of handed on with `?`
io_write_ignores_error(self, address, size, value, permit) ==
  LET w == vec_write(self.memory, address, size, value)
      asked == <<HandlerCall("can_write", self.memory, address, size)>>
  IN IF permit
     THEN [self |-> [memory |-> w.memory], ret |-> "Ok",
           calls |-> Append(asked, HandlerCall("on_write", w.memory, address, size))]
     ELSE [self |-> self, ret |-> "Ok", calls |-> asked]

\* <IOMemory as StorageMut>::write; permit is the answer of handler.can_write, calls
\* are the calls of the handler in their order
io_write(self, address, size, value, permit) ==
  LET w == vec_write(self.memory, address, size, value)
      asked == <<HandlerCall("can_write", self.memory, address, size)>>
  IN IF permit
     THEN (IF w.ret = "Err"
           THEN [self |-> self, ret |-> "Err", calls |-> asked]
           ELSE [self |-> [memory |-> w.memory], ret |-> "Ok",
                 calls |-> Append(asked,
                                  HandlerCall("on_write", w.memory, address, size))])
     ELSE [self |-> self, ret |-> "Ok", calls |-> asked]

\* ---------------------------------------------------------- state machine
\* the record of a call: fields a call does not use keep these values
NoCall ==
  [op |-> "none", key |-> "", address |-> 0, len |-> 0, frag |-> NoFrag, ret |-> "",
   index |-> NoneVal, local |-> 0, value |-> 0, again |-> FALSE,
   was_stopped |-> FALSE, instr_len |-> 0, fetched |-> FALSE, kind |-> "none",
   target |-> 0, word |-> 0, permit |-> FALSE, calls |-> <<>>]

Init ==
  /\ memory = new
  /\ panicked = FALSE
  /\ last = NoCall
  /\ processor = default
  /\ storage = <<0>>
  /\ run = NoRun
  /\ io = io_new(IOSize)

\* the caller's Box<dyn Storage> for a mount under key, named after the key
Owned(key, len) == [id |-> key, len |-> len]

\* a Box<dyn Storage> of which only the length is followed
Plain(len) == [id |-> "", len |-> len]

\* memory.mount(address, key, fragment)
Mount(address, key, fragment) ==
  /\ ~panicked
  /\ LET r == mount(memory, address, key, fragment)
     IN /\ memory' = r.self
        /\ panicked' = (r.result = "Panic")
        /\ last' = [NoCall EXCEPT !.op = "mount", !.key = key, !.address = address,
                                  !.frag = fragment, !.ret = r.result]
  /\ UNCHANGED <<procVars, io>>

\* memory.unmount(key)
Unmount(key) ==
  /\ ~panicked
  /\ LET r == unmount(memory, key)
     IN /\ memory' = r.self
        /\ panicked' = (r.kind = "Panic")
        /\ last' = [NoCall EXCEPT !.op = "unmount", !.key = key, !.ret = r.kind,
                                  !.frag = r.frag,
                                  !.again = /\ last.op = "unmount"
                                            /\ last.ret = "Some"
                                            /\ last.key = key]
  /\ UNCHANGED <<procVars, io>>

AccessAddrs == 0 .. (AddrSpan + 1)

\* memory.check_range(address, len)
CheckRange(address, len) ==
  /\ ~panicked
  /\ \E r \in check_range(memory, address, len) :
       last' = [NoCall EXCEPT !.op = "check_range", !.address = address, !.len = len,
                              !.ret = r.ret, !.index = r.got.index,
                              !.local = r.got.local]
  /\ UNCHANGED <<memory, panicked, procVars, io>>

\* memory.borrow_slice(address, len)
BorrowSlice(address, len) ==
  /\ ~panicked
  /\ \E r \in borrow_slice(memory, address, len) :
       last' = [NoCall EXCEPT !.op = "borrow_slice", !.address = address, !.len = len,
                              !.ret = r.ret, !.index = r.got.index,
                              !.local = r.got.local]
  /\ UNCHANGED <<memory, panicked, procVars, io>>

\* memory.borrow_slice_mut(address, len)
BorrowSliceMut(address, len) ==
  /\ ~panicked
  /\ \E r \in borrow_slice(memory, address, len) :
       last' = [NoCall EXCEPT !.op = "borrow_slice_mut", !.address = address,
                              !.len = len, !.ret = r.ret, !.index = r.got.index,
                              !.local = r.got.local]
  /\ UNCHANGED <<memory, panicked, procVars, io>>

\* memory.length()
Length ==
  /\ ~panicked
  /\ last' = [NoCall EXCEPT !.op = "length", !.value = length(memory)]
  /\ UNCHANGED <<memory, panicked, procVars, io>>

\* the instruction word a tick has fetched at pc (0 when it fetched none)
fetched_word(instructions, pc, fetched) ==
  IF fetched THEN read_u32(SubSeq(instructions, pc + 1, pc + WORD_BYTES)) ELSE 0

\* processor.tick(instructions, storage), called by the host; while run holds the
\* processor (&mut self) the host cannot call it
Tick(instructions) ==
  /\ ~panicked
  /\ ~run.active
  /\ \E r \in tick(processor, instructions, storage) :
       /\ processor' = r.self
       /\ storage' = r.storage
       /\ panicked' = r.panic
       /\ last' = [NoCall EXCEPT !.op = "tick", !.ret = r.ret,
                                 !.was_stopped = (processor.state # NoState),
                                 !.instr_len = Len(instructions),
                                 !.fetched = r.fetched, !.kind = r.kind,
                                 !.target = r.target,
                                 !.word = fetched_word(instructions,
                                                       processor.program_counter,
                                                       r.fetched)]
  /\ UNCHANGED <<memory, run, io>>

\* the addresses find_mount_index is called with; the upper bound is the address
\* plus a fragment length, as in mount
FindAddrs == 0 .. (AddrSpan + 1)

\* memory.find_mount_index(address, upper_bound)
FindMountIndex(address, upper_bound) ==
  /\ ~panicked
  /\ LET index == find_mount_index(memory, address, upper_bound)
     IN last' = [NoCall EXCEPT !.op = "find_mount_index", !.address = address,
                               !.value = upper_bound, !.index = index,
                               !.ret = IF index = NoneVal THEN "FragmentIntersection"
                                       ELSE "Ok"]
  /\ UNCHANGED <<memory, panicked, procVars, io>>

NextMem ==
  \/ \E address \in MountAddrs, key \in Keys, len \in FragLens :
       Mount(address, key, Owned(key, len))
  \/ \E key \in Keys : Unmount(key)
  \/ Length

NextAccess ==
  \/ \E address \in MountAddrs, key \in Keys, len \in FragLens :
       Mount(address, key, Plain(len))
  \/ \E key \in Keys : Unmount(key)
  \/ \E address \in AccessAddrs, len \in AccessLens : CheckRange(address, len)
  \/ \E address \in AccessAddrs, len \in AccessLens : BorrowSlice(address, len)
  \/ \E address \in AccessAddrs, len \in AccessLens : BorrowSliceMut(address, len)

NextLookup ==
  \/ \E address \in LookupAddrs, key \in LookupKeys, len \in FragLens :
       Mount(address, key, Plain(len))
  \/ \E key \in LookupKeys : Unmount(key)
  \/ \E address \in AccessAddrs, len \in AccessLens : CheckRange(address, len)
  \/ \E address \in AccessAddrs, len \in AccessLens : BorrowSlice(address, len)
  \/ \E address \in AccessAddrs, len \in AccessLens : BorrowSliceMut(address, len)

NextFind ==
  \/ \E address \in 0 .. AddrSpan, key \in Keys, len \in FragLens :
       Mount(address, key, Plain(len))
  \/ \E key \in Keys : Unmount(key)
  \/ \E address \in FindAddrs, len \in FragLens :
       FindMountIndex(address, address + len)

\* the composite memory under mounts, unmounts and calls of find_mount_index
SpecFind == Init /\ [][NextFind]_vars

NextProc == \E instructions \in InstrStreams : Tick(instructions)

\* io.write(address, size, value) with a handler whose can_write answers permit
IOWrite(address, size, value, permit) ==
  /\ ~panicked
  /\ LET r == io_write(io, address, size, value, permit)
     IN /\ io' = r.self
        /\ last' = [NoCall EXCEPT !.op = "write", !.address = address, !.len = size,
                                  !.value = value, !.ret = r.ret, !.permit = permit,
                                  !.calls = r.calls]
  /\ UNCHANGED <<memory, panicked, procVars>>

NextIO ==
  \E address \in IOAddrs, size \in IOWriteSizes, value \in IOValues, permit \in BOOLEAN :
    IOWrite(address, size, value, permit)

\* the IOMemory under any sequence of writes, permitted or vetoed
SpecIO == Init /\ [][NextIO]_vars

\* the register values an ADD is run on: the ends and the middle of the u32 range
OperandVals == {0, 1, U32Max \div 2, (U32Max \div 2) + 1, U32Max - 1, U32Max}

\* the programs of test/instructions/add.rs: one ADD, then HALT
AddPrograms ==
  {program_from_words(<<instr_alu(ADD, rd, rs1, rs2), instr_i(HALT, 0, 0, 0)>>)
     : rd \in RegIds, rs1 \in RegIds, rs2 \in RegIds}

\* a processor whose registers the test has loaded with operands
InitAdd ==
  /\ memory = new
  /\ panicked = FALSE
  /\ last = NoCall
  /\ processor \in {[default EXCEPT !.registers = regs] : regs \in [RegIds -> OperandVals]}
  /\ storage = <<0>>
  /\ run = NoRun
  /\ io = io_new(IOSize)

NextAdd == \E instructions \in AddPrograms : Tick(instructions)

\* ticks of the ADD programs on loaded registers
SpecAdd == InitAdd /\ [][NextAdd]_vars

\* the ticks counted in a call of run
MaxTicks == 2

\* the programs run is called with: test.rs program_halt, an ADD before the HALT,
\* and one word of the rest of the instruction set
HaltProgram == program_from_words(<<instr_i(HALT, 0, 0, 0)>>)
RunPrograms ==
  {HaltProgram,
   program_from_words(<<instr_alu(ADD, 0, 0, 1), instr_i(HALT, 0, 0, 0)>>),
   program_from_words(<<0>>)}

\* streams of whole words a new processor is run on: two ADDs and no stopping
\* instruction, two words of the rest of the instruction set, the HALT program, and
\* a stream as long as the u32 range (2^32 bytes in the program)
LoopProgram ==
  program_from_words(<<instr_alu(ADD, 0, 0, 1), instr_alu(ADD, 1, 0, 1)>>)
LongStream == [i \in 1 .. U32Mod |-> 0]
WordStreams == {LoopProgram, program_from_words(<<0, 0>>), HaltProgram, LongStream}

\* processor.run(instructions, storage) is entered
RunStart(instructions) ==
  /\ ~panicked
  /\ ~run.active
  /\ run' = [active |-> TRUE, program |-> instructions, ticks |-> 0, ret |-> NoState,
             fresh |-> (processor = default)]
  /\ last' = [NoCall EXCEPT !.op = "run"]
  /\ UNCHANGED <<memory, panicked, processor, storage, io>>

\* one iteration of the loop of run
RunTick ==
  /\ ~panicked
  /\ run.active
  /\ \E r \in run_iteration(processor, run.program, storage) :
       /\ processor' = r.tick.self
       /\ storage' = r.tick.storage
       /\ panicked' = r.tick.panic
       /\ run' = [run EXCEPT !.active = ~r.returned,
                             !.ticks = IF run.ticks < MaxTicks THEN run.ticks + 1
                                       ELSE MaxTicks,
                             !.ret = r.tick.ret]
       /\ last' = [NoCall EXCEPT !.op = "tick", !.ret = r.tick.ret,
                                 !.was_stopped = (processor.state # NoState),
                                 !.instr_len = Len(run.program),
                                 !.fetched = r.tick.fetched, !.kind = r.tick.kind,
                                 !.target = r.tick.target,
                                 !.word = fetched_word(run.program,
                                                       processor.program_counter,
                                                       r.tick.fetched)]
  /\ UNCHANGED <<memory, io>>

NextRun ==
  \/ \E instructions \in RunPrograms : Tick(instructions)
  \/ \E instructions \in RunPrograms : RunStart(instructions)
  \/ RunTick

NextSame ==
  \/ \E instructions \in WordStreams : RunStart(instructions)
  \/ RunTick

\* a new processor that is only ever ticked by run, every tick of a call with the
\* same stream
SpecSame == Init /\ [][NextSame]_vars

\* the processor under ticks and calls of run
SpecRun == Init /\ [][NextRun]_vars

\* the same, where the loop of a call of run goes on as long as the call is active
SpecRunLive == SpecRun /\ WF_vars(RunTick)

\* the composite memory under any sequence of mount, unmount and length calls
SpecMem == Init /\ [][NextMem]_vars

\* the composite memory under mounts, unmounts and accesses, two keys
SpecAccess == Init /\ [][NextAccess]_vars

\* the composite memory under mounts, unmounts and accesses, three keys
SpecLookup == Init /\ [][NextLookup]_vars

\* the processor under any sequence of ticks
SpecProc == Init /\ [][NextProc]_vars

\* ------------------------------------------------------------------ claims
Entry(i) == memory.fragments[i]
Positions == 1 .. Len(memory.fragments)
AccessOps == {"check_range", "borrow_slice", "borrow_slice_mut"}
Refused == {"false", "Err"}

\* [address, address + len) and the fragment at position i share an address
Overlaps(i, address, len) ==
  \E x \in address .. (address + len - 1) :
    /\ Entry(i).addr <= x
    /\ x < Entry(i).addr + Entry(i).frag.len

\* address lies inside the fragment at position i
Inside(i, address) ==
  /\ Entry(i).addr <= address
  /\ address < Entry(i).addr + Entry(i).frag.len

\* C1: once the processor holds an exit code, a tick returns that code and changes
\* neither the program counter, the registers, the stored state nor the storage.
C1_StoppedTickIsNoOp ==
  [][(last'.op = "tick" /\ processor.state # NoState)
       => /\ last'.ret = processor.state
          /\ processor' = processor
          /\ storage' = storage
          /\ ~last'.fetched]_vars

\* a stopped processor has been ticked again, with a stream it could have fetched from
C1_Witness ==
  /\ last.op = "tick"
  /\ last.was_stopped
  /\ last.ret = processor.state
  /\ last.instr_len >= processor.program_counter + WORD_BYTES

\* the fragments other than those named id, in list order
RECURSIVE OthersFrom(_, _, _)
OthersFrom(fragments, id, i) ==
  IF i > Len(fragments) THEN <<>>
  ELSE (IF fragments[i].frag.id = id THEN <<>> ELSE <<fragments[i]>>)
       \o OthersFrom(fragments, id, i + 1)

\* C2: unmount(key) of a registered key removes and returns exactly the fragment
\* mounted under that key; every other fragment stays mounted at its base address.
C2_UnmountReturnsOwnFragment ==
  [][(last'.op = "unmount" /\ last'.key \in DOMAIN memory.registry)
       => /\ last'.ret = "Some"
          /\ last'.frag.id = last'.key
          /\ memory'.fragments = OthersFrom(memory.fragments, last'.key, 1)]_vars

\* C3: mount with a registered key fails with KeyAlreadyExists whatever the address
\* and the fragment length, and leaves the fragment list and the registry unchanged.
C3_DuplicateKeyFirst ==
  [][(last'.op = "mount" /\ last'.key \in DOMAIN memory.registry)
       => /\ last'.ret = "KeyAlreadyExists"
          /\ memory' = memory
          /\ ~panicked']_vars

\* a duplicate key was refused although the upper bound of the range overflows
C3_Witness ==
  /\ last.op = "mount"
  /\ last.ret = "KeyAlreadyExists"
  /\ last.address + last.frag.len > U32Max

\* C4 as stated: mount with an unregistered key whose range overlaps a mounted
\* fragment fails with FragmentIntersection and leaves the memory unchanged.
C4_OverlapRefused ==
  [][(/\ last'.op = "mount"
      /\ last'.key \notin DOMAIN memory.registry
      /\ \E i \in Positions : Overlaps(i, last'.address, last'.frag.len))
       => /\ last'.ret = "FragmentIntersection"
          /\ memory' = memory]_vars

\* C4 amended: the same, for a range whose upper bound address + length does not
\* overflow the u32 range.
C4_OverlapRefusedNoOverflow ==
  [][(/\ last'.op = "mount"
      /\ last'.key \notin DOMAIN memory.registry
      /\ last'.address + last'.frag.len <= U32Max
      /\ \E i \in Positions : Overlaps(i, last'.address, last'.frag.len))
       => /\ last'.ret = "FragmentIntersection"
          /\ memory' = memory
          /\ ~panicked']_vars

\* a mount was refused whose range starts inside a fragment with a lower base
C4_Witness ==
  /\ last.op = "mount"
  /\ last.ret = "FragmentIntersection"
  /\ last.key \notin DOMAIN memory.registry
  /\ \E i \in Positions :
       /\ Entry(i).addr < last.address
       /\ Overlaps(i, last.address, last.frag.len)

\* C5 as stated: mount with an unregistered key whose upper bound overflows returns
\* the FragmentIntersection error value; it neither wraps nor aborts.
C5_OverflowIsIntersection ==
  [][(/\ last'.op = "mount"
      /\ last'.key \notin DOMAIN memory.registry
      /\ last'.address + last'.frag.len > U32Max)
       => /\ last'.ret = "FragmentIntersection"
          /\ ~panicked'
          /\ memory' = memory]_vars

\* C5 amended: mount with an unregistered key whose upper bound overflows panics;
\* nothing wraps, no value is returned and the memory is as it was.
C5_OverflowPanics ==
  [][(/\ last'.op = "mount"
      /\ last'.key \notin DOMAIN memory.registry
      /\ last'.address + last'.frag.len > U32Max)
       => /\ last'.ret = "Panic"
          /\ panicked'
          /\ memory' = memory]_vars

\* a mount has panicked on the overflow while a fragment was mounted
C5_Witness ==
  /\ last.op = "mount"
  /\ last.ret = "Panic"
  /\ last.address + last.frag.len > U32Max
  /\ Len(memory.fragments) > 0

\* C6: an access at an address inside a mounted fragment is resolved to that
\* fragment, with local offset address - base.
C6_ResolvesToCoveringFragment ==
  last.op \in AccessOps
    => \A i \in Positions :
         Inside(i, last.address)
           => /\ last.index = i - 1
              /\ last.local = last.address - Entry(i).addr

BeforeFirst(address) ==
  /\ Len(memory.fragments) > 0
  /\ address < Entry(1).addr

InGap(address) ==
  /\ \A i \in Positions : ~Inside(i, address)
  /\ \E i \in Positions : Entry(i).addr <= address
  /\ \E i \in Positions : Entry(i).addr > address

PastEnd(address, len) ==
  \E i \in Positions :
    /\ Inside(i, address)
    /\ address + len > Entry(i).addr + Entry(i).frag.len

\* C7 as stated: check_range is false and borrow_slice / borrow_slice_mut fail for an
\* access that starts before the first fragment or in a gap, or that starts inside
\* a fragment and extends past its length.
C7_UncoveredRefused ==
  (/\ last.op \in AccessOps
   /\ \/ BeforeFirst(last.address)
      \/ InGap(last.address)
      \/ PastEnd(last.address, last.len))
    => last.ret \in Refused

\* C7 amended: the same, except that an access of length 0 that starts in a gap
\* exactly where a fragment ends is accepted.
C7_UncoveredRefusedButEmptyAtEnd ==
  (/\ last.op \in AccessOps
   /\ \/ BeforeFirst(last.address)
      \/ /\ InGap(last.address)
         /\ ~(/\ last.len = 0
              /\ \E i \in Positions :
                   Entry(i).addr + Entry(i).frag.len = last.address)
      \/ PastEnd(last.address, last.len))
    => last.ret \in Refused

\* an access was refused that starts inside a fragment and runs into the next one,
\* which begins where this one ends
C7_Witness ==
  /\ last.op \in AccessOps
  /\ last.ret \in Refused
  /\ \E i \in Positions :
       /\ Inside(i, last.address)
       /\ last.address + last.len > Entry(i).addr + Entry(i).frag.len
       /\ i + 1 \in Positions
       /\ Entry(i + 1).addr = Entry(i).addr + Entry(i).frag.len
       /\ Entry(i + 1).frag.len > 0

\* C8: length() is 0 with nothing mounted; otherwise it is base + length of the
\* fragment with the highest base, the largest upper bound of all fragments.
C8_LengthIsLargestUpperBound ==
  /\ Len(memory.fragments) = 0 => length(memory) = 0
  /\ Len(memory.fragments) > 0 =>
       /\ \E i \in Positions :
            /\ \A j \in Positions : Entry(j).addr <= Entry(i).addr
            /\ length(memory) = Entry(i).addr + Entry(i).frag.len
       /\ \A j \in Positions : Entry(j).addr + Entry(j).frag.len <= length(memory)
  /\ last.op = "length" => last.value = length(memory)

\* length() was called with two fragments mounted, the second below the first's base
C8_Witness ==
  /\ last.op = "length"
  /\ last.value > 0
  /\ Len(memory.fragments) = 2
  /\ "f0" \in DOMAIN memory.registry
  /\ "f1" \in DOMAIN memory.registry
  /\ memory.registry["f1"] = 0
  /\ Entry(1).frag.id = "f1"

\* C9: an unmount(key) right after an unmount(key) that returned a fragment returns
\* none; unmount of a key that is not registered returns none and changes nothing.
C9_UnmountNotIdempotent ==
  [][last'.op = "unmount"
       => /\ (last.op = "unmount" /\ last.ret = "Some" /\ last.key = last'.key)
               => last'.ret = "None"
          /\ last'.key \notin DOMAIN memory.registry
               => (last'.ret = "None" /\ memory' = memory /\ ~panicked')]_vars

\* the second unmount of a key has returned none
C9_Witness ==
  /\ last.op = "unmount"
  /\ last.again
  /\ last.ret = "None"

\* C10: a tick of a running processor with program_counter + 4 beyond the length
\* of the instruction stream stops with BadProgramCounter, fetches nothing and
\* changes neither registers, program counter nor storage.
C10_BadProgramCounter ==
  [][(/\ last'.op = "tick"
      /\ processor.state = NoState
      /\ processor.program_counter + WORD_BYTES > last'.instr_len)
       => /\ last'.ret = "BadProgramCounter"
          /\ processor'.state = "BadProgramCounter"
          /\ ~last'.fetched
          /\ processor'.registers = processor.registers
          /\ processor'.program_counter = processor.program_counter
          /\ storage' = storage]_vars

\* C11: a tick whose outcome is Jump(target) with target not a multiple of the word
\* size stops with BadAlignment, inside the stream or not, and leaves the program
\* counter unchanged.
C11_UnalignedJumpStops ==
  [][(/\ last'.op = "tick"
      /\ last'.kind = "Jump"
      /\ last'.target % WORD_BYTES # 0)
       => /\ last'.ret = "BadAlignment"
          /\ processor'.state = "BadAlignment"
          /\ processor'.program_counter = processor.program_counter]_vars

\* a jump to an unaligned target inside the stream has stopped the processor
C11_Witness ==
  /\ last.op = "tick"
  /\ last.kind = "Jump"
  /\ last.target % WORD_BYTES # 0
  /\ last.target < last.instr_len
  /\ processor.state = "BadAlignment"

\* C12 as stated: a tick whose outcome is Jump(target) with target >= the stream
\* length stops with BadJump, for every such target, program counter unchanged.
C12_JumpPastEndStops ==
  [][(/\ last'.op = "tick"
      /\ last'.kind = "Jump"
      /\ last'.target >= last'.instr_len)
       => /\ last'.ret = "BadJump"
          /\ processor'.state = "BadJump"
          /\ processor'.program_counter = processor.program_counter]_vars

\* C12 amended: the same for every word-aligned target >= the stream length (an
\* unaligned one stops with BadAlignment).
C12_AlignedJumpPastEndStops ==
  [][(/\ last'.op = "tick"
      /\ last'.kind = "Jump"
      /\ last'.target % WORD_BYTES = 0
      /\ last'.target >= last'.instr_len)
       => /\ last'.ret = "BadJump"
          /\ processor'.state = "BadJump"
          /\ processor'.program_counter = processor.program_counter]_vars

\* a jump to the aligned address right behind the last word has stopped the processor
C12_Witness ==
  /\ last.op = "tick"
  /\ last.kind = "Jump"
  /\ last.target = last.instr_len
  /\ last.target > 0
  /\ processor.state = "BadJump"

\* C13 as stated: a tick whose outcome is Next leaves the processor running, yields
\* no exit code and sets the program counter to pc + 4, or to 0 when pc + 4 exceeds
\* the stream length.
C13_NextAdvances ==
  [][(last'.op = "tick" /\ last'.kind = "Next")
       => /\ last'.ret = NoState
          /\ processor'.state = NoState
          /\ processor'.program_counter =
               IF processor.program_counter + WORD_BYTES > last'.instr_len
               THEN 0
               ELSE processor.program_counter + WORD_BYTES]_vars

\* C13 amended: the program counter becomes pc + 4 when pc + 4 is below the stream
\* length (as the u32 the program takes it for) and 0 when pc + 4 reaches or exceeds
\* it, so the last word is followed by address 0.
C13_NextAdvancesOrRestarts ==
  [][(last'.op = "tick" /\ last'.kind = "Next")
       => /\ last'.ret = NoState
          /\ processor'.state = NoState
          /\ processor'.program_counter =
               IF processor.program_counter + WORD_BYTES < last'.instr_len % U32Mod
               THEN processor.program_counter + WORD_BYTES
               ELSE 0]_vars

\* the last word of a stream of two words was executed with outcome Next (from
\* address 0 the program counter would have gone to the second word)
C13_Witness ==
  /\ last.op = "tick"
  /\ last.kind = "Next"
  /\ last.instr_len = 2 * WORD_BYTES
  /\ processor.program_counter = 0
  /\ processor.state = NoState

\* C14: whenever the processor is running, the program counter is a multiple of the
\* word size.
C14_RunningPcAligned ==
  processor.state = NoState => processor.program_counter % WORD_BYTES = 0

\* a jump was taken and the processor runs on at its target
C14_Witness ==
  /\ last.op = "tick"
  /\ last.kind = "Jump"
  /\ processor.state = NoState
  /\ processor.program_counter = last.target
  /\ last.target > 0

\* C15: run on a fresh processor with the program of a single HALT returns after
\* one tick with Halted, leaves state() at Halted and every register at its initial
\* value; any run returns the exit code of the first tick that yields one, and a
\* started run of the HALT program does return.
C15_HaltProgramRuns ==
  /\ [][(run.active /\ last'.op = "tick")
          => /\ run'.active <=> (last'.ret = NoState /\ ~panicked')
             /\ ~run'.active /\ ~panicked'
                  => (run'.ret = last'.ret /\ run'.ret = processor'.state)
             /\ (run.fresh /\ run.program = HaltProgram)
                  => /\ ~run'.active
                     /\ run'.ticks = 1
                     /\ run'.ret = "Halted"
                     /\ processor'.state = "Halted"
                     /\ processor'.registers = default.registers]_vars
  /\ (run.active /\ run.fresh /\ run.program = HaltProgram) ~> ~run.active

\* the run of the HALT program on a fresh processor has returned Halted
C15_Witness ==
  /\ ~run.active
  /\ run.fresh
  /\ run.program = HaltProgram
  /\ run.ticks = 1
  /\ run.ret = "Halted"
  /\ processor.state = "Halted"

\* C16: a write for which can_write answers false changes no byte of the buffer,
\* does not invoke on_write and returns Ok, for every address and size, in range or
\* not.
C16_VetoedWriteIsNoOp ==
  [][(last'.op = "write" /\ ~last'.permit)
       => /\ io' = io
          /\ last'.ret = "Ok"
          /\ last'.calls =
               <<HandlerCall("can_write", io.memory, last'.address, last'.len)>>]_vars

\* a vetoed write outside a buffer that holds a value has returned Ok
C16_Witness ==
  /\ last.op = "write"
  /\ ~last.permit
  /\ last.address + last.len > Len(io.memory)
  /\ last.ret = "Ok"
  /\ \E i \in 1 .. Len(io.memory) : io.memory[i] # 0

\* C17: for a permitted write in range, can_write is asked with the buffer as it was
\* before the write, then the buffer is written, then on_write is invoked exactly
\* once, with the same address and size and with the new value readable at address.
C17_PermittedWriteOrder ==
  [][(/\ last'.op = "write"
      /\ last'.permit
      /\ last'.address + last'.len <= Len(io.memory))
       => /\ last'.ret = "Ok"
          /\ last'.calls =
               <<HandlerCall("can_write", io.memory, last'.address, last'.len),
                 HandlerCall("on_write", io'.memory, last'.address, last'.len)>>
          /\ vec_read(io'.memory, last'.address, last'.len)
               = truncated(last'.value, last'.len)
          /\ \A i \in 1 .. Len(io.memory) :
               (i <= last'.address \/ i > last'.address + last'.len)
                 => io'.memory[i] = io.memory[i]]_vars

\* a permitted write has changed the buffer and on_write has seen the new bytes
C17_Witness ==
  /\ last.op = "write"
  /\ last.permit
  /\ last.ret = "Ok"
  /\ Len(last.calls) = 2
  /\ last.calls[2].method = "on_write"
  /\ last.calls[2].memory = io.memory
  /\ last.calls[1].memory # io.memory
  /\ vec_read(io.memory, last.address, last.len) = 258

C19_RegistryRecordsPositions ==
  ~panicked
    => /\ \A key \in DOMAIN memory.registry :
            /\ memory.registry[key] \in 0 .. (Len(memory.fragments) - 1)
            /\ Entry(memory.registry[key] + 1).frag.id = key
       /\ \A k1 \in DOMAIN memory.registry, k2 \in DOMAIN memory.registry :
            k1 # k2 => memory.registry[k1] # memory.registry[k2]
       /\ Cardinality(DOMAIN memory.registry) = Len(memory.fragments)

\* C20: after any mount and unmount calls the fragment list is sorted by base
\* address, non-decreasing, and no two fragments share an address.
C20_SortedAndDisjoint ==
  /\ \A i \in Positions, j \in Positions : i < j => Entry(i).addr <= Entry(j).addr
  /\ \A i \in Positions, j \in Positions :
       i # j => ~Overlaps(i, Entry(j).addr, Entry(j).frag.len)

\* a third fragment was mounted between or beside two non-empty fragments
C20_Witness ==
  /\ last.op = "mount"
  /\ last.ret = "Ok"
  /\ Len(memory.fragments) = 3
  /\ Entry(1).frag.len > 0
  /\ Entry(3).frag.len > 0
  /\ Entry(1).addr < Entry(3).addr

\* the index of the first fragment whose base is >= address, the list length if
\* there is none
FirstAtOrAbove(address) ==
  LET above == {i \in Positions : Entry(i).addr >= address}
  IN IF above = {} THEN Len(memory.fragments)
     ELSE (CHOOSE i \in above : \A j \in above : i <= j) - 1

\* the base of a fragment lies in [address, upper_bound), or address lies behind the
\* base and before the upper bound of a fragment
Blocked(address, upper_bound) ==
  \E i \in Positions :
    \/ address <= Entry(i).addr /\ Entry(i).addr < upper_bound
    \/ Entry(i).addr < address /\ address < Entry(i).addr + Entry(i).frag.len

\* C21 as stated: find_mount_index returns FragmentIntersection exactly when
\* [address, upper_bound) shares an address with a mounted fragment, and otherwise
\* the index of the first fragment whose base is >= address.
C21_IntersectionIffOverlap ==
  last.op = "find_mount_index"
    => /\ last.ret = "FragmentIntersection"
            <=> \E i \in Positions : Overlaps(i, last.address, last.value - last.address)
       /\ last.ret = "Ok" => last.index = FirstAtOrAbove(last.address)

\* C21 amended: find_mount_index returns FragmentIntersection exactly when the base
\* of a fragment, empty or not, lies in [address, upper_bound) or address lies
\* strictly between the base and the upper bound of a fragment; every range that
\* shares an address with a fragment is among these, a range that only touches its
\* neighbours is not, and otherwise the result is the index of the first fragment
\* whose base is >= address.
C21_IntersectionIffBlocked ==
  last.op = "find_mount_index"
    => /\ last.ret = "FragmentIntersection" <=> Blocked(last.address, last.value)
       /\ (\E i \in Positions : Overlaps(i, last.address, last.value - last.address))
            => last.ret = "FragmentIntersection"
       /\ (\A i \in Positions :
             \/ Entry(i).addr >= last.value
             \/ Entry(i).addr + Entry(i).frag.len <= last.address
                  /\ Entry(i).addr < last.address)
            => last.ret = "Ok"
       /\ last.ret = "Ok" => last.index = FirstAtOrAbove(last.address)

\* a range that touches the fragment before it and the fragment behind it was given
\* the index between them
C21_Witness ==
  /\ last.op = "find_mount_index"
  /\ last.ret = "Ok"
  /\ last.index = 1
  /\ last.address < last.value
  /\ Len(memory.fragments) >= 2
  /\ Entry(1).frag.len > 0
  /\ Entry(1).addr + Entry(1).frag.len = last.address
  /\ Entry(2).addr = last.value
  /\ Entry(2).frag.len > 0

\* C22: while a fresh processor is ticked with one and the same instruction stream
\* whose length is a positive multiple of the word size, the program counter of the
\* running processor is below the stream length and BadProgramCounter is never
\* produced; a run of a stream without a stopping instruction never returns.
C22_SameStreamStaysInside ==
  (/\ run.fresh
   /\ Len(run.program) > 0
   /\ Len(run.program) % WORD_BYTES = 0)
    => /\ processor.state = NoState => processor.program_counter < Len(run.program)
       /\ processor.state # "BadProgramCounter"
       /\ run.ret # "BadProgramCounter"
       /\ run.program = LoopProgram => (run.active /\ ~panicked)

\* C23: a write whose range is not inside the buffer returns the out-of-range error
\* and does not invoke on_write when the handler permits it, and returns Ok when
\* the handler vetoes it.
C23_OutOfRangeWrite ==
  [][(/\ last'.op = "write"
      /\ last'.address + last'.len > Len(io.memory))
       => /\ last'.calls =
               <<HandlerCall("can_write", io.memory, last'.address, last'.len)>>
          /\ last'.permit => last'.ret = "Err"
          /\ ~last'.permit => last'.ret = "Ok"]_vars

\* a permitted write that starts inside the buffer and runs over its end has failed
C23_Witness ==
  /\ last.op = "write"
  /\ last.permit
  /\ last.address < Len(io.memory)
  /\ last.address + last.len > Len(io.memory)
  /\ last.ret = "Err"
  /\ Len(last.calls) = 1
  /\ \E i \in 1 .. Len(io.memory) : io.memory[i] # 0

====
